---- MODULE Spec2Model ----
(***************************************************************************)
(* A model of miniapi's process module (src/miniapi/process/subprocess.py): *)
(* run_safe, run_background, command_exists and find_executable, with the  *)
(* exception types of src/miniapi/core/exceptions.py, and of tqdm_download *)
(* of src/miniapi/network/http.py.                                         *)
(*                                                                         *)
(* Text is a sequence of one-character strings.  A command is a record     *)
(* [kind |-> "str", val |-> text] or [kind |-> "list", val |-> <<text>>].  *)
(* An optional value is <<>> (None) or <<v>>.                              *)
(***************************************************************************)
EXTENDS Integers, Sequences, FiniteSets, TLC

VARIABLES
    IS_WINDOWS,      \* core/platform.py: sys.platform == "win32"
    pc,              \* position of the calling thread
    api,             \* which function is being called
    command,         \* argument: command
    shell,           \* argument: shell
    check,           \* argument: check
    capture_output,  \* argument: capture_output
    errors,          \* argument: errors, the decode-error policy
    timeout,         \* argument: timeout, <<>> or <<t>>
    cwd,             \* argument: cwd, <<>> or <<directory>>
    world,           \* what the operating system holds for this command
    cmd_args,        \* what is handed to subprocess.run / subprocess.Popen
    start_time,      \* run_safe's local start_time
    mono,            \* the monotonic clock (subprocess's deadline clock)
    skew,            \* how far the wall clock has been set back
    deadline,        \* subprocess.run's deadline, <<>> or <<instant>>
    child,           \* the child process: none, running, zombie, reaped
    killed,          \* the child was sent SIGKILL by subprocess.run
    exitcode,        \* the child's exit status, <<>> while it runs
    rawout,          \* what the child wrote: [out |-> text, err |-> text]
    result,          \* the CommandResult returned, <<>> or <<r>>
    exc,             \* the exception caught inside run_safe / run_background
    err,             \* the ProcessError that escaped, <<>> or <<e>>
    caught,          \* the failure the caller caught from its previous call
    spawns,          \* number of spawn attempts of the current call
    constructed,     \* number of CommandResult objects the call has built
    exists,          \* command_exists's return value, <<>> or <<b>>
    fname,           \* find_executable: name
    paths,           \* find_executable: paths
    files,           \* the files that exist, as <<directory, file name>>
    xfiles,          \* those of them the caller may execute (os.X_OK)
    found,           \* find_executable's return value, <<>> or <<path>>
    net,             \* tqdm_download: what the network and the disk do
    ret,             \* tqdm_download's return value, <<>> or <<n>>
    calls            \* the run_safe calls of the concurrent threads

procVars == <<pc, api, command, shell, check, capture_output, errors, timeout,
              cwd, world,
              cmd_args, start_time, mono, skew, deadline, child, killed,
              exitcode, rawout, result, exc, err, caught, spawns,
              constructed, exists>>
findVars == <<fname, paths, files, xfiles, found>>
netVars == <<net, ret>>
vars == <<IS_WINDOWS, procVars, findVars, netVars, calls>>

None == <<>>
Some(x) == <<x>>

----------------------------------------------------------------------------
(* Bounds of the model.                                                    *)

MaxLen == 5        \* longest raw command string of the tokenizer check
MaxArgs == 2       \* longest argument list of the tokenizer check
MaxArgLen == 2     \* longest argument of such a list
MaxTime == 3       \* the monotonic clock runs from 0 to MaxTime
MaxSkew == 1       \* the wall clock is set back at most this far
MaxTimeout == 2    \* timeouts are 1..MaxTimeout ticks
MaxCode == 2       \* exit codes the stub child chooses are 0..MaxCode
MaxDirs == 2       \* longest search path of find_executable
TicksPerCs == 2    \* clock ticks per 0.01 s, the resolution of ":.2f"

----------------------------------------------------------------------------
(* Text.                                                                   *)

SP == " "
DQ == "\""
SQ == "'"
BS == "\\"
NL == "\n"

\* str.split() and str.strip() without arguments, and shlex.whitespace
Whitespace == {" ", "\t", "\r", "\n"}
\* shlex.quotes, shlex.escape, shlex.escapedquotes in POSIX mode
Quotes == {DQ, SQ}
Escape == {BS}
EscapedQuotes == {DQ}

\* sep.join(parts)
RECURSIVE Join(_, _)
Join(sep, parts) ==
    IF parts = <<>> THEN <<>>
    ELSE IF Len(parts) = 1 THEN parts[1]
    ELSE parts[1] \o sep \o Join(sep, Tail(parts))

\* str.strip(): leading and trailing whitespace removed
RECURSIVE LStrip(_)
LStrip(s) ==
    IF s # <<>> /\ Head(s) \in Whitespace THEN LStrip(Tail(s)) ELSE s

RECURSIVE RStrip(_)
RStrip(s) ==
    IF s # <<>> /\ s[Len(s)] \in Whitespace
    THEN RStrip(SubSeq(s, 1, Len(s) - 1)) ELSE s

Strip(s) == RStrip(LStrip(s))

\* A byte that is not valid UTF-8, and the character U+FFFD that decoding
\* with errors="replace" puts in its place.
BadByte == "\\xff"
ReplacementChar == "\\ufffd"

\* bytes.decode("utf-8", policy) for the policies "replace" and "strict",
\* where it does not raise.
Decode(bytes, policy) ==
    [i \in 1..Len(bytes) |->
        IF bytes[i] = BadByte THEN ReplacementChar ELSE bytes[i]]

\* bytes.decode raises UnicodeDecodeError
DecodeRaises(bytes, policy) ==
    policy = "strict" /\ \E i \in 1..Len(bytes) : bytes[i] = BadByte

\* str.split() without arguments: runs of whitespace separate the tokens,
\* no empty token is produced, quote characters are ordinary characters.
RECURSIVE SplitFrom(_, _, _, _)
SplitFrom(s, i, token, acc) ==
    IF i > Len(s)
    THEN IF token = <<>> THEN acc ELSE Append(acc, token)
    ELSE IF s[i] \in Whitespace
         THEN SplitFrom(s, i + 1, <<>>,
                        IF token = <<>> THEN acc ELSE Append(acc, token))
         ELSE SplitFrom(s, i + 1, Append(token, s[i]), acc)

StrSplit(s) == SplitFrom(s, 1, <<>>, <<>>)

\* shlex.split(s): shlex(s, posix=True), whitespace_split = True,
\* commenters = ''.  The scanner's state is "sp" (between tokens), "a" (in a
\* word), a quote character (inside that quote) or "\\" (after an escape).
\* The result is [ok |-> TRUE, toks |-> tokens] or, for the ValueError of an
\* unclosed quotation or a trailing escape, [ok |-> FALSE, toks |-> <<>>].
RECURSIVE ShlexScan(_, _, _, _, _, _, _)
ShlexScan(s, i, state, escapedstate, token, quoted, acc) ==
    LET emit == IF token # <<>> \/ quoted THEN Append(acc, token) ELSE acc IN
    IF i > Len(s)
    THEN IF state \in Quotes \/ state \in Escape
         THEN [ok |-> FALSE, toks |-> <<>>]
         ELSE [ok |-> TRUE, toks |-> emit]
    ELSE LET c == s[i] IN
      CASE state = "sp" ->
             IF c \in Whitespace
             THEN ShlexScan(s, i + 1, "sp", escapedstate, <<>>, FALSE, emit)
             ELSE IF c \in Escape
             THEN ShlexScan(s, i + 1, c, "a", token, quoted, acc)
             ELSE IF c \in Quotes
             THEN ShlexScan(s, i + 1, c, escapedstate, token, quoted, acc)
             ELSE ShlexScan(s, i + 1, "a", escapedstate, <<c>>, quoted, acc)
        [] state \in Quotes ->
             IF c = state
             THEN ShlexScan(s, i + 1, "a", escapedstate, token, TRUE, acc)
             ELSE IF c \in Escape /\ state \in EscapedQuotes
             THEN ShlexScan(s, i + 1, c, state, token, TRUE, acc)
             ELSE ShlexScan(s, i + 1, state, escapedstate,
                            Append(token, c), TRUE, acc)
        [] state \in Escape ->
             LET kept == IF escapedstate \in Quotes /\ c # state
                            /\ c # escapedstate
                         THEN Append(token, state) ELSE token
             IN ShlexScan(s, i + 1, escapedstate, escapedstate,
                          Append(kept, c), quoted, acc)
        [] OTHER ->  \* state = "a"
             IF c \in Whitespace
             THEN ShlexScan(s, i + 1, "sp", escapedstate, <<>>, FALSE, emit)
             ELSE IF c \in Quotes
             THEN ShlexScan(s, i + 1, c, escapedstate, token, quoted, acc)
             ELSE IF c \in Escape
             THEN ShlexScan(s, i + 1, c, "a", token, quoted, acc)
             ELSE ShlexScan(s, i + 1, "a", escapedstate,
                            Append(token, c), quoted, acc)

ShlexSplit(s) == ShlexScan(s, 1, "sp", "sp", <<>>, FALSE, <<>>)

----------------------------------------------------------------------------
(* Command tokenization.                                                   *)

Str(s) == [kind |-> "str", val |-> s]
List(l) == [kind |-> "list", val |-> l]

\* Mutant: an argument list is joined and split again on whitespace.
RunSafeArgsResplit(cmd, sh, win) ==
    IF cmd.kind = "str"
    THEN IF sh THEN [ok |-> TRUE, args |-> cmd]
         ELSE IF win THEN [ok |-> TRUE, args |-> List(StrSplit(cmd.val))]
         ELSE LET r == ShlexSplit(cmd.val)
              IN [ok |-> r.ok, args |-> List(r.toks)]
    ELSE IF sh THEN [ok |-> TRUE, args |-> Str(Join(<<SP>>, cmd.val))]
         ELSE [ok |-> TRUE, args |-> List(StrSplit(Join(<<SP>>, cmd.val)))]

\* Mutant: the platform is not looked at, shlex.split is used everywhere.
RunSafeArgsNoPlatform(cmd, sh, win) ==
    IF cmd.kind = "str"
    THEN IF sh THEN [ok |-> TRUE, args |-> cmd]
         ELSE LET r == ShlexSplit(cmd.val)
              IN [ok |-> r.ok, args |-> List(r.toks)]
    ELSE IF sh THEN [ok |-> TRUE, args |-> Str(Join(<<SP>>, cmd.val))]
         ELSE [ok |-> TRUE, args |-> cmd]

\* Mutant: in shell mode the list is joined without a separator.
RunSafeArgsJoinNoSpace(cmd, sh, win) ==
    IF cmd.kind = "str"
    THEN IF sh THEN [ok |-> TRUE, args |-> cmd]
         ELSE IF win THEN [ok |-> TRUE, args |-> List(StrSplit(cmd.val))]
         ELSE LET r == ShlexSplit(cmd.val)
              IN [ok |-> r.ok, args |-> List(r.toks)]
    ELSE IF sh THEN [ok |-> TRUE, args |-> Str(Join(<<>>, cmd.val))]
         ELSE [ok |-> TRUE, args |-> cmd]

\* run_safe, lines 76-91: [ok |-> TRUE, args |-> cmd_args], or ok = FALSE
\* when shlex.split raises ValueError.
RunSafeArgs(cmd, sh, win) ==
    IF cmd.kind = "str"
    THEN IF sh THEN [ok |-> TRUE, args |-> cmd]
         ELSE IF win THEN [ok |-> TRUE, args |-> List(StrSplit(cmd.val))]
         ELSE LET r == ShlexSplit(cmd.val)
              IN [ok |-> r.ok, args |-> List(r.toks)]
    ELSE IF sh THEN [ok |-> TRUE, args |-> Str(Join(<<SP>>, cmd.val))]
         ELSE [ok |-> TRUE, args |-> cmd]

\* run_background, lines 195-201
RunBackgroundArgs(cmd, win) ==
    IF cmd.kind = "str"
    THEN IF win THEN [ok |-> TRUE, args |-> cmd]
         ELSE LET r == ShlexSplit(cmd.val)
              IN [ok |-> r.ok, args |-> List(r.toks)]
    ELSE [ok |-> TRUE, args |-> cmd]

\* repr() of a str without quote or escape characters, and of a list of them
Repr(s) == <<SQ>> \o s \o <<SQ>>
ReprList(l) ==
    <<"[">> \o Join(<<",", SP>>, [i \in 1..Len(l) |-> Repr(l[i])]) \o <<"]">>

\* str(command), as the f-strings and line 139 form it
CommandText(cmd) == IF cmd.kind = "str" THEN cmd.val ELSE ReprList(cmd.val)

----------------------------------------------------------------------------
(* Messages and errors.  A message is the sequence of the pieces an         *)
(* f-string concatenates: literal text, embedded text, embedded numbers.   *)

Lit(s) == [lit |-> s]
Txt(s) == [txt |-> s]
Num(n) == [num |-> n]
Fix2(n) == [fix2 |-> n]

\* format(x, ".2f") of a duration of e ticks: the number of hundredths shown,
\* rounded to nearest with ties to even.
Format2f(e) ==
    LET q == e \div TicksPerCs
        r == e % TicksPerCs
    IN IF 2 * r < TicksPerCs THEN q
       ELSE IF 2 * r > TicksPerCs THEN q + 1
       ELSE IF q % 2 = 0 THEN q ELSE q + 1

\* ProcessError.__init__(message, command="", exit_code=None)
ProcessError(message, cmd, code) ==
    [type |-> "ProcessError",
     message |-> IF cmd # <<>>
                 THEN <<Lit("An error occurred while executing the command '"),
                        Txt(cmd), Lit("': ")>> \o message
                 ELSE message,
     command |-> cmd,
     exit_code |-> code]

\* Mutant: the message of raise_if_failed leaves the error output out.
RaiseIfFailedNoStderr(r) ==
    ProcessError(<<Lit("Command execution failed (code="), Num(r.returncode),
                   Lit("): "), Txt(r.command)>>, <<>>, None)

\* CommandResult.raise_if_failed, lines 35-39: the error it raises
RaiseIfFailed(r) ==
    ProcessError(<<Lit("Command execution failed (code="), Num(r.returncode),
                   Lit("): "), Txt(r.command), Lit("\nError Output: "),
                   Txt(r.stderr)>>, <<>>, None)

\* Mutant: there is no except clause for TimeoutExpired and the last clause
\* catches OSError only, so that other exceptions escape as they are.
RunSafeExceptOSErrorOnly(e, inner, cmd, tmo, started, now) ==
    IF e = "FileNotFoundError"
    THEN ProcessError(<<Lit("Command not found: "), Txt(CommandText(cmd)),
                        Lit("\nPlease ensure the command is installed and in PATH")>>,
                      <<>>, None)
    ELSE IF e \in {"OSError", "PermissionError", "NotADirectoryError",
                   "ProcessError"}
    THEN ProcessError(<<Lit("Error executing command "), Txt(CommandText(cmd)),
                        Lit(": ")>> \o inner, <<>>, None)
    ELSE [type |-> e, message |-> inner, command |-> <<>>,
          exit_code |-> None]

\* Mutant: there is no except clause for FileNotFoundError.
RunSafeExceptNoNotFound(e, inner, cmd, tmo, started, now) ==
    IF e = "TimeoutExpired"
    THEN ProcessError(<<Lit("Command execution timed out ("), Num(tmo[1]),
                        Lit("sec ): "), Txt(CommandText(cmd)),
                        Lit("\nElapsed Time: "), Fix2(Format2f(now - started)),
                        Lit("sec")>>, <<>>, None)
    ELSE ProcessError(<<Lit("Error executing command "), Txt(CommandText(cmd)),
                        Lit(": ")>> \o inner, <<>>, None)

\* run_safe's except clauses, lines 150-159: the error that escapes when the
\* exception e (with str(e) = inner) is caught at wall-clock instant now.
RunSafeExcept(e, inner, cmd, tmo, started, now) ==
    IF e = "TimeoutExpired"
    THEN ProcessError(<<Lit("Command execution timed out ("), Num(tmo[1]),
                        Lit("sec ): "), Txt(CommandText(cmd)),
                        Lit("\nElapsed Time: "), Fix2(Format2f(now - started)),
                        Lit("sec")>>, <<>>, None)
    ELSE IF e = "FileNotFoundError"
    THEN ProcessError(<<Lit("Command not found: "), Txt(CommandText(cmd)),
                        Lit("\nPlease ensure the command is installed and in PATH")>>,
                      <<>>, None)
    ELSE ProcessError(<<Lit("Error executing command "), Txt(CommandText(cmd)),
                        Lit(": ")>> \o inner, <<>>, None)

\* run_background's except clause, lines 215-216
RunBackgroundExcept(inner, cmd) ==
    ProcessError(<<Lit("Unable to start background process "),
                   Txt(CommandText(cmd)), Lit(": ")>> \o inner, <<>>, None)

\* str(e) of an exception raised by shlex or by the spawn
StrOf(e) == <<Lit(e)>>

----------------------------------------------------------------------------
(* find_executable, as a function of the file system.                      *)

Dirs == {"dirA", "dirB"}
ExeNames == {<<"p">>}
Exts == <<<<".", "e", "x", "e">>, <<".", "b", "a", "t">>,
          <<".", "c", "m", "d">>>>

\* Mutant: the Windows extensions are never tried.
PossibleNamesBareOnly(name, win) == <<name>>

\* Lines 259-261
PossibleNames(name, win) ==
    <<name>> \o (IF win THEN [k \in 1..Len(Exts) |-> name \o Exts[k]]
                 ELSE <<>>)

\* Path(path_dir) / possible_name
PathJoin(dir, name) == <<dir, name>>

\* exe_path.is_file()
IsFile(path, fs) == path \in fs

\* Lines 263-274: the scan stands at directory ps[i] and candidate names[j].
\* os.access returns a truth value that the code does not look at, and it
\* raises nothing, so every existing file is returned.
RECURSIVE ScanFrom(_, _, _, _, _)
ScanFrom(ps, names, fs, i, j) ==
    IF i > Len(ps) THEN None
    ELSE IF j > Len(names) THEN ScanFrom(ps, names, fs, i + 1, 1)
    ELSE IF IsFile(PathJoin(ps[i], names[j]), fs)
         THEN Some(PathJoin(ps[i], names[j]))
         ELSE ScanFrom(ps, names, fs, i, j + 1)

\* Mutant: the loops are nested the other way round, names outermost.
RECURSIVE ScanNamesFirst(_, _, _, _, _)
ScanNamesFirst(ps, names, fs, j, i) ==
    IF j > Len(names) THEN None
    ELSE IF i > Len(ps) THEN ScanNamesFirst(ps, names, fs, j + 1, 1)
    ELSE IF IsFile(PathJoin(ps[i], names[j]), fs)
         THEN Some(PathJoin(ps[i], names[j]))
         ELSE ScanNamesFirst(ps, names, fs, j, i + 1)

FindExecutableNamesFirst(name, ps, fs, win) ==
    ScanNamesFirst(ps, PossibleNames(name, win), fs, 1, 1)

\* find_executable(name, paths)
FindExecutable(name, ps, fs, win) ==
    ScanFrom(ps, PossibleNames(name, win), fs, 1, 1)

----------------------------------------------------------------------------
(* The operating system, as far as the calls depend on it.                 *)

\* The wall clock (time.time()): it follows the monotonic clock, except that
\* it can be set back.
Wall == mono + MaxSkew - skew

\* subprocess.run / subprocess.Popen at lines 116 and 203: "ok" when a child
\* is spawned, else the exception the spawn raises.  dir is <<>>, or the
\* name of a directory, of which "gone" does not exist; the executable the
\* command names is "present", "missing" or "noexec" (no execute permission).
\* With shell = True the child is the platform shell, which exists.
SpawnOutcome(args, sh, dir, w, win) ==
    IF args.kind = "list" /\ args.val = <<>>
    THEN IF win THEN "OSError" ELSE "IndexError"
    ELSE IF dir = Some("gone")
    THEN IF win THEN "NotADirectoryError" ELSE "FileNotFoundError"
    ELSE IF sh THEN "ok"
    ELSE IF w = "missing" THEN "FileNotFoundError"
    ELSE IF w = "noexec" THEN "PermissionError"
    ELSE "ok"

\* The exit statuses the child can end with.  A shell asked to run a program
\* it cannot find or cannot execute ends with its own status for that.
ExitCodes(args, sh, w, win) ==
    IF sh /\ w = "missing" /\ Strip(args.val) # <<>>
    THEN {IF win THEN 1 ELSE 127}
    ELSE IF sh /\ w = "noexec" /\ Strip(args.val) # <<>>
    THEN {IF win THEN 1 ELSE 126}
    ELSE 0..MaxCode

\* The lookup helper command_exists runs: which, or where on Windows.
HelperCommand(name, win) ==
    List(<<IF win THEN <<"w", "h", "e", "r", "e">>
           ELSE <<"w", "h", "i", "c", "h">>, name>>)

\* The helper's own lookup: some directory of the search path holds the
\* name, on Windows also under one of the executable extensions.
HelperFinds(name, ps, fs, win) ==
    \E i \in 1..Len(ps), k \in 1..Len(PossibleNames(name, win)) :
        <<ps[i], PossibleNames(name, win)[k]>> \in fs

\* A helper that runs exits with 0 and prints the path it found, or exits
\* with 1 and prints a complaint to stderr.
HelperCodes(name, ps, fs, win) ==
    IF HelperFinds(name, ps, fs, win) THEN {0} ELSE {1}

HelperOutputs(name, ps, fs, win) ==
    IF HelperFinds(name, ps, fs, win)
    THEN {[out |-> <<"/">> \o name \o <<NL>>, err |-> <<>>]}
    ELSE {[out |-> <<>>, err |-> <<"e", NL>>]}

\* What a child writes to its two streams.
Outputs ==
    {[out |-> <<>>, err |-> <<>>],
     [out |-> <<"o", NL>>, err |-> <<"e", SP, "r", NL>>],
     [out |-> <<SP, "o">>, err |-> <<NL>>],
     [out |-> <<"o">>, err |-> <<BadByte, NL>>]}

\* The values of run_safe's errors argument that the model covers.
ErrorPolicies == {"replace", "strict"}

\* The commands of the process model: an argument list with a blank inside
\* an argument, a raw string with a quoted blank, a raw string whose
\* quotation is not closed.
Commands ==
    {List(<<<<"x">>, <<"a", SP, "b">>>>),
     Str(<<"x", SP, DQ, "a", SP, "b", DQ>>),
     Str(<<"x", SP, DQ, "a">>)}

Timeouts == {None} \cup {Some(t) : t \in 1..MaxTimeout}
Cwds == {None, Some("gone")}
Worlds == {"present", "missing", "noexec"}

----------------------------------------------------------------------------
(* The state between calls.                                                *)

NoCommand == Str(<<>>)
NoOutput == [out |-> <<>>, err |-> <<>>]

ProcRest ==
    /\ pc = "idle" /\ cmd_args = NoCommand
    /\ start_time = 0 /\ mono = 0 /\ skew = 0 /\ deadline = None
    /\ child = "none" /\ killed = FALSE /\ exitcode = None
    /\ rawout = NoOutput /\ result = None /\ exc = "none" /\ err = None
    /\ spawns = 0 /\ constructed = 0 /\ exists = None

ProcIdle ==
    /\ api = "none" /\ command = NoCommand
    /\ shell = FALSE /\ check = FALSE /\ capture_output = FALSE
    /\ errors = "replace"
    /\ timeout = None /\ cwd = None /\ world = "present"
    /\ ProcRest

FindIdle ==
    /\ fname = <<>> /\ paths = <<>> /\ files = {} /\ xfiles = {}
    /\ found = None

NetIdle == net = "none" /\ ret = None

NoCalls == <<>>

Init ==
    /\ IS_WINDOWS \in BOOLEAN
    /\ ProcIdle
    /\ caught = None
    /\ FindIdle
    /\ NetIdle
    /\ calls = NoCalls

----------------------------------------------------------------------------
(* run_safe.                                                               *)

\* Mutant: success is set without looking at the return code.
BuildResultAlwaysSuccess(cmd, cap, code, raw, started, now) ==
    LET stdout == IF cap THEN raw.out ELSE <<>>
        stderr == IF cap THEN raw.err ELSE <<>>
    IN [success |-> TRUE,
        returncode |-> code,
        stdout |-> IF stdout # <<>> THEN Strip(stdout) ELSE <<>>,
        stderr |-> IF stderr # <<>> THEN Strip(stderr) ELSE <<>>,
        command |-> CommandText(cmd),
        execution_time |-> now - started,
        pid |-> None]

\* The CommandResult of lines 118-142.  subprocess.run returns a
\* CompletedProcess, which has no pid attribute, so pid stays None.
BuildResult(cmd, cap, code, raw, started, now) ==
    LET stdout == IF cap THEN raw.out ELSE <<>>
        stderr == IF cap THEN raw.err ELSE <<>>
    IN [success |-> (code = 0),
        returncode |-> code,
        stdout |-> IF stdout # <<>> THEN Strip(stdout) ELSE <<>>,
        stderr |-> IF stderr # <<>> THEN Strip(stderr) ELSE <<>>,
        command |-> CommandText(cmd),
        execution_time |-> now - started,
        pid |-> None]

\* Mutant: on a timeout the child is left as it is.
LeaveChild(c) == c

\* The kill that subprocess.run performs when communicate() times out
\* (process.kill() followed by process.wait()): the state it leaves the
\* child in.
KillAndReap(c) == "reaped"

\* Mutant: a spawn that raised is tried a second time.
SpawnAttemptsRetry(tokenized, outcome) ==
    IF ~tokenized THEN 0 ELSE IF outcome = "ok" THEN 1 ELSE 2

\* The number of spawn attempts of one call: subprocess.run is called once,
\* at line 116, when the tokenizer has not raised, whatever the outcome.
SpawnAttempts(tokenized, outcome) == IF tokenized THEN 1 ELSE 0

\* Lines 72-116, up to the spawn inside subprocess.run: the start instant is
\* read, the command is tokenized, the child is spawned.  A ValueError of
\* the tokenizer or an exception of the spawn is handled by lines 150-159.
RunSafeCall ==
    /\ pc = "idle"
    /\ \E cmd \in Commands, sh \in BOOLEAN, chk \in BOOLEAN, cap \in BOOLEAN,
          pol \in ErrorPolicies, tmo \in Timeouts, dir \in Cwds, w \in Worlds :
         LET tok == RunSafeArgs(cmd, sh, IS_WINDOWS)
             sp == IF tok.ok
                   THEN SpawnOutcome(tok.args, sh, dir, w, IS_WINDOWS)
                   ELSE "ValueError"
         IN /\ api' = "run_safe" /\ command' = cmd /\ shell' = sh
            /\ check' = chk /\ capture_output' = cap /\ errors' = pol
            /\ timeout' = tmo
            /\ cwd' = dir /\ world' = w
            /\ start_time' = Wall
            /\ cmd_args' = IF tok.ok THEN tok.args ELSE NoCommand
            /\ spawns' = SpawnAttempts(tok.ok, sp)
            /\ IF sp = "ok"
               THEN /\ child' = "running"
                    /\ deadline' = IF tmo = None THEN None
                                   ELSE Some(mono + tmo[1])
                    /\ pc' = "wait" /\ exc' = "none" /\ err' = None
               ELSE /\ child' = "none" /\ deadline' = None
                    /\ pc' = "raised" /\ exc' = sp
                    /\ err' = Some(RunSafeExcept(sp, StrOf(sp), cmd, tmo,
                                                 Wall, Wall))
    /\ UNCHANGED <<IS_WINDOWS, mono, skew, killed, exitcode, rawout, result,
                   caught, findVars, netVars, calls,
                   constructed, exists>>

\* The child ends by itself: it becomes a zombie until it is waited for.
ChildExit ==
    /\ child = "running"
    /\ \E code \in (IF api = "command_exists" /\ world = "present"
                     THEN HelperCodes(fname, paths, files, IS_WINDOWS)
                     ELSE ExitCodes(cmd_args, shell, world, IS_WINDOWS)),
          raw \in (IF api = "command_exists" /\ world = "present"
                    THEN HelperOutputs(fname, paths, files, IS_WINDOWS)
                    ELSE Outputs) :
         /\ exitcode' = Some(code)
         /\ rawout' = raw
    /\ child' = "zombie"
    /\ UNCHANGED <<IS_WINDOWS, pc, api, command, shell, check, capture_output, errors,
                   timeout, cwd, world, cmd_args, start_time, mono, skew,
                   deadline, killed, result, exc, err, caught, spawns,
                   findVars, netVars, calls,
                   constructed, exists>>

\* subprocess.run with text=True, encoding and errors (lines 101-107, 116):
\* both captured streams are decoded after the child has been waited for.
DecodeFails(raw, policy) ==
    DecodeRaises(raw.out, policy) \/ DecodeRaises(raw.err, policy)

DecodeOutput(raw, policy) ==
    [out |-> Decode(raw.out, policy), err |-> Decode(raw.err, policy)]

\* Lines 116-148 when the child has ended: subprocess.run reaps it, decodes
\* what it captured (a decoding error is raised out of subprocess.run into
\* the handler of line 158) and returns, the result is built, and with
\* check a failure is raised by raise_if_failed inside the try block, so
\* that the handler of line 158 wraps it.
RunCompletes ==
    /\ pc = "wait" /\ child = "zombie"
    /\ IF capture_output /\ DecodeFails(rawout, errors)
       THEN /\ pc' = "raised" /\ exc' = "UnicodeDecodeError"
            /\ err' = Some(RunSafeExcept("UnicodeDecodeError",
                                         StrOf("UnicodeDecodeError"),
                                         command, timeout, start_time, Wall))
            /\ result' = None
            /\ constructed' = constructed
       ELSE LET r == BuildResult(command, capture_output, exitcode[1],
                                 DecodeOutput(rawout, errors),
                                 start_time, Wall)
                inner == RaiseIfFailed(r)
            IN /\ IF check /\ ~r.success
                  THEN /\ pc' = "raised" /\ exc' = "ProcessError"
                       /\ err' = Some(RunSafeExcept("ProcessError",
                                                    inner.message, command,
                                                    timeout, start_time,
                                                    Wall))
                       /\ result' = None
                  ELSE /\ pc' = "returned" /\ result' = Some(r)
                       /\ UNCHANGED <<exc, err>>
               /\ constructed' = constructed + 1
    /\ child' = "reaped"
    /\ UNCHANGED <<IS_WINDOWS, api, command, shell, check, capture_output, errors,
                   timeout, cwd, world, cmd_args, start_time, mono, skew,
                   deadline, killed, exitcode, rawout, caught, spawns,
                   findVars, netVars, calls,
                   exists>>

\* Mutant: the timeout handler builds a CommandResult from the partial output.
OnTimeoutPartialResult(n) == n + 1

\* Lines 150-155 build no CommandResult: the number built stays as it is.
OnTimeout(n) == n

\* Lines 116 and 150-155 when the deadline passes first: subprocess.run
\* kills the child, waits for it and raises TimeoutExpired; the handler reads
\* the wall clock again.
RunTimeout ==
    /\ pc = "wait" /\ deadline # None /\ mono >= deadline[1]
    /\ child' = KillAndReap(child)
    /\ killed' = (child = "running")
    /\ exitcode' = IF child = "running" THEN Some(-9) ELSE exitcode
    /\ pc' = "raised" /\ exc' = "TimeoutExpired"
    /\ constructed' = OnTimeout(constructed)
    /\ err' = Some(RunSafeExcept("TimeoutExpired", <<>>, command, timeout,
                                 start_time, Wall))
    /\ UNCHANGED <<IS_WINDOWS, api, command, shell, check, capture_output, errors,
                   timeout, cwd, world, cmd_args, start_time, mono, skew,
                   deadline, rawout, result, caught, spawns, findVars, netVars, calls,
                   exists>>

\* Time passes while the caller is blocked in subprocess.run.
Tick ==
    /\ pc = "wait" /\ mono < MaxTime
    /\ mono' = mono + 1
    /\ UNCHANGED <<IS_WINDOWS, pc, api, command, shell, check, capture_output, errors,
                   timeout, cwd, world, cmd_args, start_time, skew, deadline,
                   child, killed, exitcode, rawout, result, exc, err, caught,
                   spawns, findVars, netVars, calls,
                   constructed, exists>>

\* The system clock is set back while the caller is blocked.
ClockSetBack ==
    /\ pc = "wait" /\ skew < MaxSkew
    /\ skew' = skew + 1
    /\ UNCHANGED <<IS_WINDOWS, pc, api, command, shell, check, capture_output, errors,
                   timeout, cwd, world, cmd_args, start_time, mono, deadline,
                   child, killed, exitcode, rawout, result, exc, err, caught,
                   spawns, findVars, netVars, calls,
                   constructed, exists>>

----------------------------------------------------------------------------
(* run_background.                                                         *)

\* Lines 194-216: the command is tokenized and the child is spawned; the
\* Popen handle is returned while the child runs, and every exception is
\* handled by lines 215-216.
\* Mutant: the launcher waits for the child before it returns the handle.
PopenWaited == "reaped"

\* The state of the child when Popen returns at lines 203-214: Popen does
\* not wait, and nothing between line 203 and the return at line 214 does.
PopenChild == "running"

\* Mutant: a failed launch is reported with run_safe's generic message.
RunBackgroundFailureGeneric(sp, cmd) ==
    RunSafeExcept("OSError", StrOf(sp), cmd, None, 0, 0)

\* What lines 215-216 raise when the tokenizer or Popen raised sp.
RunBackgroundFailure(sp, cmd) == RunBackgroundExcept(StrOf(sp), cmd)

RunBackgroundCall ==
    /\ pc = "idle"
    /\ \E cmd \in Commands, dir \in Cwds, w \in Worlds :
         LET tok == RunBackgroundArgs(cmd, IS_WINDOWS)
             sp == IF tok.ok
                   THEN SpawnOutcome(tok.args, FALSE, dir, w, IS_WINDOWS)
                   ELSE "ValueError"
         IN /\ api' = "run_background" /\ command' = cmd
            /\ cwd' = dir /\ world' = w
            /\ cmd_args' = IF tok.ok THEN tok.args ELSE NoCommand
            /\ spawns' = IF tok.ok THEN 1 ELSE 0
            /\ IF sp = "ok"
               THEN /\ child' = PopenChild /\ pc' = "handle_returned"
                    /\ exc' = "none" /\ err' = None
               ELSE /\ child' = "none" /\ pc' = "raised" /\ exc' = sp
                    /\ err' = Some(RunBackgroundFailure(sp, cmd))
    /\ UNCHANGED <<IS_WINDOWS, shell, check, capture_output, errors, timeout,
                   start_time, mono, skew, deadline, killed, exitcode, rawout,
                   result, caught, findVars, netVars, calls,
                   constructed, exists>>

----------------------------------------------------------------------------
(* The caller.                                                             *)

\* Which of the failures of the process API the caller has just met.
FailureKind ==
    IF api = "run_background" THEN "launch"
    ELSE IF exc = "TimeoutExpired" THEN "timeout"
    ELSE IF exc = "FileNotFoundError" THEN "not_found"
    ELSE IF exc = "ProcessError" THEN "nonzero"
    ELSE "other"

\* CommandResult is declared with @dataclass and without frozen=True, so an
\* attribute assignment on a result the caller holds is accepted.
CallerAssignsField ==
    /\ api = "run_safe" /\ pc = "returned" /\ result # None
    /\ result' = Some([result[1] EXCEPT !.success = ~@])
    /\ pc' = "held"
    /\ UNCHANGED <<IS_WINDOWS, api, command, shell, check, capture_output, errors,
                   timeout, cwd, world, cmd_args, start_time, mono, skew,
                   deadline, child, killed, exitcode, rawout, exc, err, caught,
                   spawns, constructed, exists, findVars, netVars, calls>>

\* The caller waits on the Popen handle that line 214 returned: an ended
\* child is reaped.
HandleWait ==
    /\ api = "run_background" /\ pc = "handle_returned" /\ child = "zombie"
    /\ child' = "reaped"
    /\ UNCHANGED <<IS_WINDOWS, pc, api, command, shell, check, capture_output, errors,
                   timeout, cwd, world, cmd_args, start_time, mono, skew,
                   deadline, killed, exitcode, rawout, result, exc, err,
                   caught, spawns, constructed, exists, findVars, netVars, calls>>

\* The caller kills the child through the handle: SIGKILL on POSIX,
\* TerminateProcess with exit status 1 on Windows.
HandleKill ==
    /\ api = "run_background" /\ pc = "handle_returned" /\ child = "running"
    /\ child' = "zombie"
    /\ exitcode' = Some(IF IS_WINDOWS THEN 1 ELSE -9)
    /\ UNCHANGED <<IS_WINDOWS, pc, api, command, shell, check, capture_output, errors,
                   timeout, cwd, world, cmd_args, start_time, mono, skew,
                   deadline, killed, rawout, result, exc, err, caught, spawns,
                   constructed, exists, findVars, netVars, calls>>

\* The call is over: the caller keeps the type of the error it caught, if
\* any, and goes on to its next call.
Return ==
    /\ \/ pc \in {"returned", "raised", "handle_returned"}
          /\ api # "command_exists"
       \/ pc \in {"exists_returned", "held", "download_returned",
                  "download_raised"}
    /\ caught' = IF pc = "raised"
                 THEN Some([kind |-> FailureKind, type |-> err[1].type])
                 ELSE caught
    /\ pc' = "idle" /\ api' = "none" /\ command' = NoCommand
    /\ shell' = FALSE /\ check' = FALSE /\ capture_output' = FALSE
    /\ errors' = "replace"
    /\ timeout' = None /\ cwd' = None /\ world' = "present"
    /\ cmd_args' = NoCommand /\ start_time' = 0 /\ mono' = 0 /\ skew' = 0
    /\ deadline' = None /\ child' = "none" /\ killed' = FALSE
    /\ exitcode' = None /\ rawout' = NoOutput /\ result' = None
    /\ exc' = "none" /\ err' = None /\ spawns' = 0
    /\ constructed' = 0 /\ exists' = None
    /\ fname' = <<>> /\ paths' = <<>> /\ files' = {} /\ xfiles' = {}
    /\ found' = None
    /\ net' = "none" /\ ret' = None
    /\ UNCHANGED calls
    /\ UNCHANGED IS_WINDOWS


----------------------------------------------------------------------------
(* command_exists.                                                         *)

SearchPath == <<"dirA", "dirB">>
HelperFileSets ==
    {{}, {<<"dirB", <<"p">>>>}, {<<"dirA", <<"p", ".", "e", "x", "e">>>>}}

\* Lines 229-236: run_safe is called on the helper, with shell = True on
\* Windows, capture_output = True, check = False and no timeout; this is
\* run_safe's lines 72-116 for those arguments.
CommandExistsCall ==
    /\ pc = "idle"
    /\ \E name \in ExeNames, fs \in HelperFileSets, w \in Worlds :
         LET cmd == HelperCommand(name, IS_WINDOWS)
             tok == RunSafeArgs(cmd, IS_WINDOWS, IS_WINDOWS)
             sp == SpawnOutcome(tok.args, IS_WINDOWS, None, w, IS_WINDOWS)
         IN /\ api' = "command_exists" /\ command' = cmd
            /\ shell' = IS_WINDOWS /\ check' = FALSE
            /\ capture_output' = TRUE /\ errors' = "replace"
            /\ timeout' = None /\ cwd' = None
            /\ world' = w
            /\ fname' = name /\ paths' = SearchPath /\ files' = fs
            /\ xfiles' = fs
            /\ start_time' = Wall
            /\ cmd_args' = tok.args
            /\ spawns' = 1
            /\ deadline' = None
            /\ IF sp = "ok"
               THEN /\ child' = "running" /\ pc' = "wait"
                    /\ exc' = "none" /\ err' = None
               ELSE /\ child' = "none" /\ pc' = "raised" /\ exc' = sp
                    /\ err' = Some(RunSafeExcept(sp, StrOf(sp), cmd, None,
                                                 Wall, Wall))
    /\ UNCHANGED <<IS_WINDOWS, mono, skew, killed, exitcode, rawout, result,
                   caught, constructed, exists, found, netVars, calls>>

\* Mutant: a run_safe that raised counts as a command that exists.
CommandExistsValueOnRaiseTrue(res, win) ==
    IF res = None THEN TRUE
    ELSE IF win THEN res[1].success /\ Strip(res[1].stdout) # <<>>
    ELSE res[1].success

\* Lines 233, 237 and 238-239: the value command_exists returns, from the
\* result of run_safe, or from the bare except when run_safe raised (res is
\* then None).
CommandExistsValue(res, win) ==
    IF res = None THEN FALSE
    ELSE IF win THEN res[1].success /\ Strip(res[1].stdout) # <<>>
    ELSE res[1].success

\* run_safe has returned or raised inside command_exists.
CommandExistsReturn ==
    /\ api = "command_exists" /\ pc \in {"returned", "raised"}
    /\ exists' = Some(CommandExistsValue(IF pc = "raised" THEN None
                                         ELSE result, IS_WINDOWS))
    /\ pc' = "exists_returned"
    /\ UNCHANGED <<IS_WINDOWS, api, command, shell, check, capture_output, errors,
                   timeout, cwd, world, cmd_args, start_time, mono, skew,
                   deadline, child, killed, exitcode, rawout, result, exc, err,
                   caught, spawns, constructed, findVars, netVars, calls>>

----------------------------------------------------------------------------
(* tqdm_download (src/miniapi/network/http.py).                            *)

\* What can happen to a download: it goes through, the connection fails
\* (requests.get raises), the server answers with an error status
\* (raise_for_status raises), or the file cannot be written (open or write
\* raises).
NetWorlds == {"ok", "connect", "status", "write"}

\* str(e) of the exception a failed download raises inside the try block
NetCause(n) == <<Lit(n)>>

\* NetworkError(message): MiniapiError.__init__ keeps the message
NetworkError(message) == [type |-> "NetworkError", message |-> message]

\* Lines 107-140: a = 0 and return a when nothing was raised; the handler
\* of line 136 sets a = 1 and then raises NetworkError, so that a is not
\* returned.
TqdmDownload(n) ==
    IF n = "ok" THEN [raised |-> FALSE, ret |-> Some(0), err |-> None]
    ELSE [raised |-> TRUE, ret |-> None,
          err |-> Some(NetworkError(<<Lit("Download failed: ")>>
                                    \o NetCause(n)))]

TqdmDownloadCall ==
    /\ pc = "idle"
    /\ \E n \in NetWorlds :
         LET o == TqdmDownload(n)
         IN /\ net' = n /\ ret' = o.ret /\ err' = o.err
            /\ pc' = IF o.raised THEN "download_raised"
                     ELSE "download_returned"
    /\ api' = "tqdm_download"
    /\ UNCHANGED <<IS_WINDOWS, command, shell, check, capture_output, errors,
                   timeout, cwd, world, cmd_args, start_time, mono, skew,
                   deadline, child, killed, exitcode, rawout, result, exc,
                   caught, spawns, constructed, exists, findVars, calls>>

----------------------------------------------------------------------------
(* The process API as a whole.                                             *)

Next ==
    \/ RunSafeCall
    \/ ChildExit
    \/ RunCompletes
    \/ RunTimeout
    \/ Tick
    \/ ClockSetBack
    \/ RunBackgroundCall
    \/ CommandExistsCall
    \/ CommandExistsReturn
    \/ CallerAssignsField
    \/ HandleWait
    \/ HandleKill
    \/ TqdmDownloadCall
    \/ Return

Spec == Init /\ [][Next]_vars

----------------------------------------------------------------------------
(* The tokenizer alone, over every short command.                          *)

SeqsUpTo(S, n) == UNION {[1..k -> S] : k \in 0..n}

TokAlphabet == {"a", SP, DQ, SQ, BS}
ArgAlphabet == {"a", SP}

TokCommands ==
    {Str(s) : s \in SeqsUpTo(TokAlphabet, MaxLen)}
    \cup {List(l) : l \in SeqsUpTo(SeqsUpTo(ArgAlphabet, MaxArgLen), MaxArgs)}

TokInit ==
    /\ IS_WINDOWS \in BOOLEAN
    /\ api \in {"run_safe", "run_background"}
    /\ command \in TokCommands
    /\ shell \in (IF api = "run_safe" THEN BOOLEAN ELSE {FALSE})
    /\ check = FALSE /\ capture_output = FALSE /\ errors = "replace"
    /\ timeout = None /\ cwd = None /\ world = "present"
    /\ ProcRest
    /\ caught = None
    /\ FindIdle
    /\ NetIdle
    /\ calls = NoCalls

\* Lines 76-91 of run_safe, lines 195-201 of run_background: cmd_args is
\* computed, or shlex.split raises ValueError.
Tokenize ==
    /\ pc = "idle" /\ api # "none"
    /\ LET tok == IF api = "run_safe"
                  THEN RunSafeArgs(command, shell, IS_WINDOWS)
                  ELSE RunBackgroundArgs(command, IS_WINDOWS)
       IN /\ cmd_args' = IF tok.ok THEN tok.args ELSE NoCommand
          /\ exc' = IF tok.ok THEN "none" ELSE "ValueError"
    /\ pc' = "tokenized"
    /\ UNCHANGED <<IS_WINDOWS, api, command, shell, check, capture_output, errors,
                   timeout, cwd, world, start_time, mono, skew, deadline,
                   child, killed, exitcode, rawout, result, err, caught,
                   spawns, constructed, exists, findVars, netVars, calls>>

TokNext == Tokenize

SpecTok == TokInit /\ [][TokNext]_vars

----------------------------------------------------------------------------
(* find_executable.                                                        *)

AllFiles ==
    {PathJoin(d, n) : d \in Dirs,
                      n \in UNION {{x} \cup {x \o Exts[k] : k \in 1..Len(Exts)}
                                   : x \in ExeNames}}

FindInit ==
    /\ IS_WINDOWS \in BOOLEAN
    /\ ProcIdle
    /\ caught = None
    /\ fname \in ExeNames
    /\ paths \in SeqsUpTo(Dirs, MaxDirs)
    /\ files \in SUBSET AllFiles
    /\ xfiles \in SUBSET files
    /\ found = None
    /\ NetIdle
    /\ calls = NoCalls

FindCall ==
    /\ pc = "idle"
    /\ found' = FindExecutable(fname, paths, files, IS_WINDOWS)
    /\ pc' = "found"
    /\ UNCHANGED <<IS_WINDOWS, api, command, shell, check, capture_output, errors,
                   timeout, cwd, world, cmd_args, start_time, mono, skew,
                   deadline, child, killed, exitcode, rawout, result, exc, err,
                   caught, spawns, constructed, exists, fname, paths, files,
                   xfiles, netVars, calls>>

FindNext == FindCall

SpecFind == FindInit /\ [][FindNext]_vars

----------------------------------------------------------------------------
(* Two threads, each making one run_safe call.  calls[t] holds, for thread *)
(* t, the arguments it passed (args), the local variables of its call      *)
(* (loc) and the child process its call spawned (kid).  The threads share  *)
(* the clocks, the platform and what the operating system holds.           *)

Threads == {1, 2}

MaxPairTime == 2   \* the clock of the two-thread model runs from 0 to this

NoInput ==
    [command |-> NoCommand, shell |-> FALSE, check |-> FALSE,
     capture_output |-> FALSE, errors |-> "replace", timeout |-> None,
     cwd |-> None, world |-> "present"]

PairCommands == {List(<<<<"x">>, <<"a", SP, "b">>>>), Str(<<"x", SP, "a">>)}

PairInputs ==
    {[command |-> cmd, shell |-> FALSE, check |-> chk,
      capture_output |-> TRUE, errors |-> "replace", timeout |-> tmo,
      cwd |-> None, world |-> w] :
        cmd \in PairCommands, chk \in BOOLEAN, tmo \in {None, Some(1)},
        w \in {"present", "missing"}}

PairCodes == {0, 1}
PairOutputs ==
    {[out |-> <<>>, err |-> <<>>],
     [out |-> <<"o", NL>>, err |-> <<"e", SP, "r", NL>>]}

\* The local variables of a run_safe call before its first line.  proc is
\* the thread whose child the local process object stands for, 0 for none;
\* end_time is the last reading of time.time().
IdleFrame ==
    [pc |-> "idle", cmd_args |-> NoCommand, start_time |-> 0, end_time |-> 0,
     deadline |-> None, proc |-> 0, result |-> None, exc |-> "none",
     err |-> None]

NoKid ==
    [state |-> "none", exitcode |-> None, rawout |-> NoOutput,
     killed |-> FALSE, timedout |-> FALSE]

\* Mutant: the variables of run_safe are module-level, one set for all
\* threads.
LocalsShared(cs, t) == cs[1].loc

\* start_time, cmd_args, kwargs, process, execution_time, stdout, stderr,
\* pid and result are local variables of run_safe: every call has its own.
Locals(cs, t) == cs[t].loc

PairInit ==
    /\ IS_WINDOWS \in BOOLEAN
    /\ ProcIdle
    /\ caught = None
    /\ FindIdle
    /\ NetIdle
    /\ calls = [t \in Threads |->
                   [args |-> NoInput, loc |-> IdleFrame, kid |-> NoKid]]

pairRest ==
    <<IS_WINDOWS, pc, api, command, shell, check, capture_output, errors,
      timeout, cwd, world, cmd_args, start_time, skew, deadline, child,
      killed, exitcode, rawout, result, exc, err, caught, spawns,
      constructed, exists, findVars, netVars>>

\* Thread t calls run_safe: lines 72-116 up to the spawn.
PairCall(t) ==
    /\ calls[t].args = NoInput /\ Locals(calls, t).pc = "idle"
    /\ \E inp \in PairInputs :
         LET loc == Locals(calls, t)
             tok == RunSafeArgs(inp.command, inp.shell, IS_WINDOWS)
             sp == IF tok.ok
                   THEN SpawnOutcome(tok.args, inp.shell, inp.cwd, inp.world,
                                     IS_WINDOWS)
                   ELSE "ValueError"
             started == [loc EXCEPT
                           !.start_time = Wall, !.end_time = Wall,
                           !.cmd_args = IF tok.ok THEN tok.args
                                        ELSE NoCommand]
             frame == IF sp = "ok"
                      THEN [started EXCEPT
                              !.pc = "wait", !.proc = t,
                              !.deadline = IF inp.timeout = None THEN None
                                           ELSE Some(mono + inp.timeout[1])]
                      ELSE [started EXCEPT
                              !.pc = "raised", !.exc = sp,
                              !.err = Some(RunSafeExcept(sp, StrOf(sp),
                                                         inp.command,
                                                         inp.timeout, Wall,
                                                         Wall))]
         IN calls' = [calls EXCEPT
                        ![t] = [args |-> inp, loc |-> frame,
                                kid |-> IF sp = "ok"
                                        THEN [NoKid EXCEPT
                                                !.state = "running"]
                                        ELSE NoKid]]
    /\ UNCHANGED <<pairRest, mono>>

\* The child of thread t ends by itself.
PairChildExit(t) ==
    /\ calls[t].kid.state = "running"
    /\ \E code \in PairCodes, raw \in PairOutputs :
         calls' = [calls EXCEPT
                     ![t].kid = [@ EXCEPT !.state = "zombie",
                                          !.exitcode = Some(code),
                                          !.rawout = raw]]
    /\ UNCHANGED <<pairRest, mono>>

\* Lines 116-148 in thread t, when the child of its process object has
\* ended.
PairCompletes(t) ==
    /\ Locals(calls, t).pc = "wait"
    /\ LET loc == Locals(calls, t)
           a == calls[t].args
           k == calls[loc.proc].kid
       IN /\ k.state = "zombie"
          /\ LET r == BuildResult(a.command, a.capture_output,
                                  k.exitcode[1],
                                  DecodeOutput(k.rawout, a.errors),
                                  loc.start_time, Wall)
                 frame ==
                     IF a.capture_output /\ DecodeFails(k.rawout, a.errors)
                     THEN [loc EXCEPT
                             !.pc = "raised", !.exc = "UnicodeDecodeError",
                             !.end_time = Wall,
                             !.err = Some(RunSafeExcept(
                                             "UnicodeDecodeError",
                                             StrOf("UnicodeDecodeError"),
                                             a.command, a.timeout,
                                             loc.start_time, Wall))]
                     ELSE IF a.check /\ ~r.success
                     THEN [loc EXCEPT
                             !.pc = "raised", !.exc = "ProcessError",
                             !.end_time = Wall,
                             !.err = Some(RunSafeExcept(
                                             "ProcessError",
                                             RaiseIfFailed(r).message,
                                             a.command, a.timeout,
                                             loc.start_time, Wall))]
                     ELSE [loc EXCEPT !.pc = "returned", !.end_time = Wall,
                                      !.result = Some(r)]
             IN calls' = [calls EXCEPT ![t].loc = frame,
                                       ![loc.proc].kid.state = "reaped"]
    /\ UNCHANGED <<pairRest, mono>>

\* Lines 116 and 150-155 in thread t, when its deadline has passed.
PairTimeout(t) ==
    /\ Locals(calls, t).pc = "wait"
    /\ LET loc == Locals(calls, t)
           a == calls[t].args
           k == calls[loc.proc].kid
       IN /\ loc.deadline # None /\ mono >= loc.deadline[1]
          /\ calls' =
               [calls EXCEPT
                  ![t].loc = [loc EXCEPT
                                !.pc = "raised", !.exc = "TimeoutExpired",
                                !.end_time = Wall,
                                !.err = Some(RunSafeExcept(
                                                "TimeoutExpired", <<>>,
                                                a.command, a.timeout,
                                                loc.start_time, Wall))],
                  ![loc.proc].kid =
                      [k EXCEPT
                         !.state = KillAndReap(k.state),
                         !.killed = (k.state = "running"),
                         !.timedout = TRUE,
                         !.exitcode = IF k.state = "running" THEN Some(-9)
                                      ELSE k.exitcode]]
    /\ UNCHANGED <<pairRest, mono>>

\* Time passes.
PairTick ==
    /\ mono < MaxPairTime
    /\ mono' = mono + 1
    /\ UNCHANGED <<pairRest, calls>>

PairNext ==
    \/ \E t \in Threads : PairCall(t)
    \/ \E t \in Threads : PairChildExit(t)
    \/ \E t \in Threads : PairCompletes(t)
    \/ \E t \in Threads : PairTimeout(t)
    \/ PairTick

SpecPair == PairInit /\ [][PairNext]_vars

----------------------------------------------------------------------------
(* Properties of run_safe and run_background, checked under Spec.          *)

Embeds(message, piece) == \E i \in 1..Len(message) : message[i] = piece

RunSafeOver == api = "run_safe" /\ pc \in {"returned", "raised"}

\* The stderr text a call has captured, as the result and the messages
\* show it.
CapturedStderr ==
    IF capture_output THEN Strip(Decode(rawout.err, errors)) ELSE <<>>

\* C1: every CommandResult run_safe returns for a child that exited with
\* code N has returncode = N and success = (N = 0).
C1_ExitCode ==
    (api = "run_safe" /\ pc = "returned") =>
        /\ result # None
        /\ exitcode # None
        /\ result[1].returncode = exitcode[1]
        /\ result[1].success = (exitcode[1] = 0)
        /\ result[1].success = (result[1].returncode = 0)

C1_Witness ==
    /\ api = "run_safe" /\ pc = "returned"
    /\ exitcode = Some(2) /\ result[1].returncode = 2 /\ ~result[1].success

\* C2 as stated: when the child of run_safe exits non-zero (and no timeout
\* struck), with check the call fails with the execution failure, whose
\* message embeds the command text and the captured stderr, and without
\* check it returns a CommandResult with success = FALSE and raises nothing.
C2_Original ==
    (RunSafeOver /\ exc # "TimeoutExpired" /\ exitcode # None
       /\ exitcode[1] # 0) =>
        IF check
        THEN /\ pc = "raised" /\ err # None /\ result = None
             /\ Embeds(err[1].message, Lit("Command execution failed (code="))
        ELSE /\ pc = "returned" /\ err = None /\ result # None

\* C2 as amended: the same, for a child whose captured output can be
\* decoded under the errors policy of the call; when decoding it fails
\* (errors = "strict"), the call fails with the generic error, with and
\* without check, and returns no result.
C2_AutoRaise ==
    (RunSafeOver /\ exc # "TimeoutExpired" /\ exitcode # None
       /\ exitcode[1] # 0) =>
        IF capture_output /\ DecodeFails(rawout, errors)
        THEN /\ pc = "raised" /\ err # None /\ result = None
             /\ errors = "strict"
             /\ err[1].message[1] = Lit("Error executing command ")
             /\ ~Embeds(err[1].message,
                        Lit("Command execution failed (code="))
        ELSE IF check
        THEN /\ pc = "raised" /\ err # None /\ result = None
             /\ err[1].type = "ProcessError"
             /\ Embeds(err[1].message, Lit("Command execution failed (code="))
             /\ Embeds(err[1].message, Num(exitcode[1]))
             /\ Embeds(err[1].message, Txt(CommandText(command)))
             /\ Embeds(err[1].message, Txt(CapturedStderr))
        ELSE /\ pc = "returned" /\ err = None /\ result # None
             /\ ~result[1].success

C2_Witness ==
    /\ RunSafeOver /\ check /\ pc = "raised" /\ exc = "ProcessError"
    /\ capture_output /\ exitcode = Some(1)
    /\ rawout.err = <<"e", SP, "r", NL>>
    /\ Embeds(err[1].message, Txt(<<"e", SP, "r">>))

\* C3: when the timeout of run_safe elapses, the child is killed and reaped
\* before the call ends, the call fails with the timeout error and returns
\* no result; after any run_safe call neither a running child nor a zombie
\* of that call remains.
C3_TimeoutKill ==
    RunSafeOver =>
        /\ child \notin {"running", "zombie"}
        /\ (exc = "TimeoutExpired" =>
              /\ pc = "raised" /\ err # None /\ result = None
              /\ child = "reaped" /\ exitcode # None
              /\ (killed <=> exitcode = Some(-9))
              /\ Embeds(err[1].message, Lit("Command execution timed out (")))

C3_Witness ==
    /\ RunSafeOver /\ exc = "TimeoutExpired" /\ killed /\ child = "reaped"
    /\ timeout = Some(1)

\* What "a process that ran and exited non-zero" looks like to the caller.
ReportedAsNonZeroExit ==
    \/ pc = "returned" /\ result # None /\ ~result[1].success
    \/ pc = "raised" /\ err # None
         /\ Embeds(err[1].message, Lit("Command execution failed (code="))

ReportedAsNotFound ==
    /\ pc = "raised" /\ err # None /\ result = None
    /\ err[1].message[1] = Lit("Command not found: ")
    /\ err[1].message[2] = Txt(CommandText(command))

NamedKinds == {"not_found", "timeout", "nonzero", "launch"}

\* C5: the four failure kinds reach the caller as distinct types, each
\* carrying the command text (and the exit code, for a non-zero exit) as
\* data of the error.
C5_TypedFailures ==
    (pc = "raised" /\ FailureKind \in NamedKinds) =>
        /\ err[1].command = CommandText(command)
        /\ (FailureKind = "nonzero" => err[1].exit_code = exitcode)
        /\ (caught # None /\ caught[1].kind \in NamedKinds
              /\ caught[1].kind # FailureKind
              => caught[1].type # err[1].type)

\* C6: the timeout error of run_safe carries the timeout t and an elapsed
\* time that is at least t.
C6_ElapsedBound ==
    (RunSafeOver /\ exc = "TimeoutExpired") =>
        /\ Embeds(err[1].message, Num(timeout[1]))
        /\ \E i \in 1..Len(err[1].message) :
             /\ DOMAIN err[1].message[i] = {"fix2"}
             /\ err[1].message[i].fix2 * TicksPerCs >= timeout[1]

----------------------------------------------------------------------------
(* Properties of the tokenizer, checked under SpecTok.                     *)

Tokenized == pc = "tokenized"

\* C7 as stated: an explicit argument list is always handed to the spawn as
\* that same list.
C7_Original ==
    (Tokenized /\ command.kind = "list") => cmd_args = command

\* C7 as amended: when shell mode is not requested, an explicit argument
\* list is handed to the spawn as that same list, on every platform.
C7_Identity ==
    (Tokenized /\ command.kind = "list" /\ ~shell) =>
        /\ exc = "none"
        /\ cmd_args.kind = "list"
        /\ Len(cmd_args.val) = Len(command.val)
        /\ \A i \in 1..Len(command.val) : cmd_args.val[i] = command.val[i]

C7_Witness ==
    /\ Tokenized /\ api = "run_safe" /\ ~shell /\ IS_WINDOWS
    /\ command = List(<<<<"a", SP>>, <<SP, "a">>>>)
    /\ cmd_args.val = <<<<"a", SP>>, <<SP, "a">>>>

\* s[i] and s[j] are a pair of quotes around text with a blank in it, and
\* s holds no other quote and no escape.
QuotedBlank(s, i, j) ==
    /\ i < j /\ s[i] \in Quotes /\ s[j] = s[i]
    /\ \E k \in (i + 1)..(j - 1) : s[k] \in Whitespace
    /\ \A k \in (1..Len(s)) \ {i, j} : s[k] \notin (Quotes \cup Escape)

Contains(tok, piece) ==
    \E o \in 0..(Len(tok) - Len(piece)) :
        SubSeq(tok, o + 1, o + Len(piece)) = piece

\* C8: run_safe without shell mode, on a raw string with a quoted substring
\* that contains whitespace: on POSIX the quoted text, blanks included, is
\* inside one token; on Windows no token holds whitespace, and the two
\* quotes end up in two different tokens.
C8_RawString ==
    (Tokenized /\ api = "run_safe" /\ ~shell /\ command.kind = "str") =>
        \A i, j \in 1..Len(command.val) :
            QuotedBlank(command.val, i, j) =>
                /\ exc = "none" /\ cmd_args.kind = "list"
                /\ IF IS_WINDOWS
                   THEN /\ \A n \in 1..Len(cmd_args.val) :
                             \A k \in 1..Len(cmd_args.val[n]) :
                                 cmd_args.val[n][k] \notin Whitespace
                        /\ Cardinality({n \in 1..Len(cmd_args.val) :
                               Contains(cmd_args.val[n],
                                        <<command.val[i]>>)}) = 2
                   ELSE \E n \in 1..Len(cmd_args.val) :
                            Contains(cmd_args.val[n],
                                     SubSeq(command.val, i + 1, j - 1))

C8_Witness ==
    /\ Tokenized /\ api = "run_safe" /\ ~shell /\ ~IS_WINDOWS
    /\ command = Str(<<DQ, "a", SP, "a", DQ>>)
    /\ cmd_args = List(<<<<"a", SP, "a">>>>)

\* The characters of text before the i-th of the parts, when the parts are
\* laid out with one separator character between neighbours.
RECURSIVE OffsetOf(_, _)
OffsetOf(parts, i) ==
    IF i = 1 THEN 0 ELSE OffsetOf(parts, i - 1) + Len(parts[i - 1]) + 1

\* C9: in shell mode run_safe does not tokenize: a raw string is handed over
\* as it is, and an argument list as one string, its elements in order with
\* a single space between neighbours.
C9_ShellMode ==
    (Tokenized /\ api = "run_safe" /\ shell) =>
        /\ exc = "none"
        /\ cmd_args.kind = "str"
        /\ (command.kind = "str" => cmd_args.val = command.val)
        /\ (command.kind = "list" =>
              LET n == Len(command.val) IN
              /\ (n = 0 => cmd_args.val = <<>>)
              /\ (n > 0 => Len(cmd_args.val)
                             = OffsetOf(command.val, n) + Len(command.val[n]))
              /\ \A i \in 1..n :
                   LET o == OffsetOf(command.val, i) IN
                   /\ SubSeq(cmd_args.val, o + 1, o + Len(command.val[i]))
                        = command.val[i]
                   /\ (i < n =>
                         cmd_args.val[o + Len(command.val[i]) + 1] = SP))

C9_Witness ==
    /\ Tokenized /\ api = "run_safe" /\ shell
    /\ command = List(<<<<"a", SP>>, <<"a">>>>)
    /\ cmd_args = Str(<<"a", SP, SP, "a">>)

----------------------------------------------------------------------------
(* Properties of find_executable, checked under SpecFind.                  *)

\* The candidate file names in the order the resolver is to try them.
Candidates ==
    IF IS_WINDOWS
    THEN <<fname, fname \o <<".", "e", "x", "e">>,
           fname \o <<".", "b", "a", "t">>, fname \o <<".", "c", "m", "d">>>>
    ELSE <<fname>>

----------------------------------------------------------------------------
(* Further properties of run_safe and run_background, checked under Spec.  *)

\* C14: a run_safe call makes at most one spawn attempt, none when the
\* tokenizer raised, and a child exists only after exactly one attempt;
\* this stays so after a spawn failure, a timeout and a non-zero exit.
C14_SingleSpawn ==
    (api = "run_safe" /\ pc # "idle") =>
        /\ spawns <= 1
        /\ (child # "none" => spawns = 1)
        /\ (spawns = 0 <=> exc = "ValueError")

C14_Witness ==
    /\ RunSafeOver /\ exc = "FileNotFoundError" /\ spawns = 1
    /\ child = "none"

\* C15: with capture enabled, stdout and stderr of the returned result are
\* the child's output with the trailing whitespace removed and nothing
\* else changed.
C15_TrailingStrip ==
    (api = "run_safe" /\ pc = "returned" /\ capture_output) =>
        /\ result[1].stdout = RStrip(Decode(rawout.out, errors))
        /\ result[1].stderr = RStrip(Decode(rawout.err, errors))

\* C16: once a CommandResult exists, no step changes any of its fields.
C16_Immutable ==
    [][(result # None /\ result' # None) => result' = result]_vars

\* C17 as stated: every run_safe call that spawned a child has constructed
\* exactly one CommandResult when it ends.
C17_Original ==
    (RunSafeOver /\ child # "none") => constructed = 1

\* C17 as amended: a run_safe call constructs at most one CommandResult:
\* exactly one when the child ended by itself, was waited for and its
\* captured output was decoded (also when check then makes the call fail),
\* none while the child runs or is not yet waited for, and none at all when
\* the call times out, when decoding fails or when the spawn fails.
C17_Lifecycle ==
    api = "run_safe" =>
        /\ constructed <= 1
        /\ (child \in {"none", "running", "zombie"} => constructed = 0)
        /\ (constructed = 1 =>
              /\ child = "reaped" /\ ~killed
              /\ exc \notin {"TimeoutExpired", "UnicodeDecodeError"})
        /\ (pc # "idle" /\ child = "reaped"
              /\ exc \notin {"TimeoutExpired", "UnicodeDecodeError"}
              => constructed = 1)
        /\ (exc \in {"TimeoutExpired", "UnicodeDecodeError"}
              => constructed = 0 /\ result = None)

C17_Witness ==
    /\ RunSafeOver /\ pc = "raised" /\ exc = "ProcessError"
    /\ constructed = 1 /\ child = "reaped" /\ result = None

\* C18: the execution_time of every CommandResult run_safe returns is not
\* negative.
C18_NonNegativeTime ==
    (api = "run_safe" /\ pc = "returned") => result[1].execution_time >= 0

\* C19: run_background returns the handle while the child is still running,
\* unwaited and with no deadline set; from then on the child changes state
\* only by ending itself or by the caller's wait or kill on the handle, until
\* the caller lets the handle go, and the library sets no deadline, kills
\* nothing and builds no result from the child's output.
C19_HandOff ==
    [][/\ (pc = "idle" /\ pc' = "handle_returned") =>
              /\ child' = "running" /\ exitcode' = None
              /\ deadline' = None /\ ~killed' /\ result' = None
       /\ (api = "run_background" /\ pc = "handle_returned") =>
              /\ (child' # child => ChildExit \/ HandleWait \/ HandleKill
                                      \/ Return)
              /\ (child' = "reaped" => child = "zombie" /\ HandleWait)
              /\ deadline' = None /\ ~killed' /\ result' = None
              /\ constructed' = 0]_vars

C19_Witness ==
    /\ api = "run_background" /\ pc = "handle_returned"
    /\ child = "zombie" /\ ~killed /\ exitcode = Some(0) /\ result = None

\* C20: a run_background call whose tokenizer or spawn raises ends, in the
\* call itself, with the launch error "Unable to start background process
\* <command>: <cause>", and leaves no child and no handle; a handle is
\* returned exactly when the spawn succeeded.
C20_LaunchFailure ==
    (api = "run_background" /\ pc \in {"raised", "handle_returned"}) =>
        LET tok == RunBackgroundArgs(command, IS_WINDOWS)
            sp == IF tok.ok
                  THEN SpawnOutcome(tok.args, FALSE, cwd, world, IS_WINDOWS)
                  ELSE "ValueError"
        IN /\ (pc = "handle_returned" <=> sp = "ok")
           /\ (pc = "handle_returned" => child # "none" /\ err = None)
           /\ (pc = "raised" =>
                 /\ child = "none" /\ spawns <= 1
                 /\ err # None /\ err[1].type = "ProcessError"
                 /\ err[1].message =
                      <<Lit("Unable to start background process "),
                        Txt(CommandText(command)), Lit(": "), Lit(sp)>>)

C20_Witness ==
    /\ api = "run_background" /\ pc = "raised" /\ world = "missing"
    /\ child = "none" /\ exc = "FileNotFoundError" /\ err # None

----------------------------------------------------------------------------
(* Properties of command_exists, checked under Spec.                       *)

\* The name asked for is a command on the search path.
OnSearchPath ==
    \E i \in 1..Len(paths), j \in 1..Len(Candidates) :
        <<paths[i], Candidates[j]>> \in files

\* C12: command_exists returns true for a name that is a command on the
\* search path and false for a name that is nowhere on it.
C12_ExistenceCheck ==
    pc = "exists_returned" => exists = Some(OnSearchPath)

\* C13: when the lookup helper is unavailable or cannot be run,
\* command_exists still returns true for a name that the PATH scan of
\* find_executable finds.
C13_Fallback ==
    (pc = "exists_returned" /\ world # "present"
       /\ FindExecutable(fname, paths, files, IS_WINDOWS) # None)
        => exists = Some(TRUE)

\* C26: whenever the run_safe call inside command_exists is over, by a
\* result or by an error, the next step is command_exists returning a
\* boolean, and nothing is raised to the caller; the boolean is false when
\* run_safe raised (helper missing, spawn error) and when the helper exited
\* non-zero.
C26_Total ==
    [][(api = "command_exists" /\ pc \in {"returned", "raised"}) =>
          /\ pc' = "exists_returned" /\ api' = api
          /\ exists' \in {Some(TRUE), Some(FALSE)}
          /\ ((pc = "raised" \/ exitcode = None \/ exitcode[1] # 0)
                => exists' = Some(FALSE))]_vars

C26_Witness ==
    /\ api = "command_exists" /\ pc = "exists_returned"
    /\ exc = "FileNotFoundError" /\ err # None /\ exists = Some(FALSE)

----------------------------------------------------------------------------
(* run_background's tokenizer against run_safe's, checked under SpecTok.   *)

\* C23: the argument vector run_background computes for a command is the
\* one run_safe computes for it without shell mode, on every platform, and
\* the one raises exactly when the other does.
C23_SameTokenizer ==
    (api = "run_background" /\ pc = "tokenized") =>
        LET rs == RunSafeArgs(command, FALSE, IS_WINDOWS)
        IN /\ (exc = "ValueError" <=> ~rs.ok)
           /\ (rs.ok => /\ cmd_args.kind = rs.args.kind
                        /\ cmd_args = rs.args)

----------------------------------------------------------------------------
(* The not-found report of run_safe, checked under Spec.                   *)

\* C27: run_safe reports "Command not found" only when the spawn failed
\* because the executable could not be located, which needs a spawn without
\* shell mode of a missing executable; a call whose executable is present
\* is never reported so.
C27_NotFoundExact ==
    (RunSafeOver /\ ReportedAsNotFound) => (~shell /\ world = "missing")

----------------------------------------------------------------------------
(* The permission check of find_executable, checked under SpecFind.        *)

\* C24: find_executable returns only a file the caller may execute: an
\* existing candidate without execute permission is skipped, so the value
\* is the first candidate, in scan order, that exists and is executable,
\* and None when there is none.
C24_ExecutableCheck ==
    pc = "found" =>
        /\ (found # None => found[1] \in xfiles)
        /\ (found = None <=>
              \A i \in 1..Len(paths), j \in 1..Len(Candidates) :
                  <<paths[i], Candidates[j]>> \notin xfiles)

----------------------------------------------------------------------------
(* tqdm_download's result code, checked under Spec.                        *)

\* C22: tqdm_download returns 0 when the download succeeds and returns 1
\* when it fails.
C22_ResultCode ==
    (api = "tqdm_download" /\ pc # "idle") =>
        /\ pc = "download_returned"
        /\ ret = Some(IF net = "ok" THEN 0 ELSE 1)

----------------------------------------------------------------------------
(* The type of what escapes the process API, checked under Spec.           *)

\* The exceptions that arise inside run_safe and run_background.
InnerExceptions ==
    {"ValueError", "IndexError", "OSError", "FileNotFoundError",
     "NotADirectoryError", "PermissionError", "TimeoutExpired",
     "UnicodeDecodeError", "ProcessError"}

----------------------------------------------------------------------------
(* Concurrent run_safe calls, checked under SpecPair.                      *)

\* The outcome of a run_safe call made alone with arguments a, whose child
\* behaves as k did and whose clock readings are started and ended.
SoloOutcome(a, k, started, ended) ==
    LET tok == RunSafeArgs(a.command, a.shell, IS_WINDOWS)
        sp == IF tok.ok
              THEN SpawnOutcome(tok.args, a.shell, a.cwd, a.world, IS_WINDOWS)
              ELSE "ValueError"
        r == BuildResult(a.command, a.capture_output, k.exitcode[1],
                         DecodeOutput(k.rawout, a.errors), started, ended)
    IN IF sp # "ok"
       THEN [result |-> None,
             err |-> Some(RunSafeExcept(sp, StrOf(sp), a.command, a.timeout,
                                        started, started))]
       ELSE IF k.timedout
       THEN [result |-> None,
             err |-> Some(RunSafeExcept("TimeoutExpired", <<>>, a.command,
                                        a.timeout, started, ended))]
       ELSE IF a.capture_output /\ DecodeFails(k.rawout, a.errors)
       THEN [result |-> None,
             err |-> Some(RunSafeExcept("UnicodeDecodeError",
                                        StrOf("UnicodeDecodeError"),
                                        a.command, a.timeout, started,
                                        ended))]
       ELSE IF a.check /\ ~r.success
       THEN [result |-> None,
             err |-> Some(RunSafeExcept("ProcessError",
                                        RaiseIfFailed(r).message, a.command,
                                        a.timeout, started, ended))]
       ELSE [result |-> Some(r), err |-> None]

PairOver(t) == calls[t].loc.pc \in {"returned", "raised"}

\* C21: whatever the interleaving of two threads' run_safe calls, a call
\* that is over has the outcome of the same call made alone with the same
\* child behaviour, its process object is its own child, and that child is
\* gone.
C21_Independence ==
    \A t \in Threads :
        PairOver(t) =>
            /\ calls[t].loc.proc \in {0, t}
            /\ (calls[t].loc.proc = 0 <=> calls[t].kid.state = "none")
            /\ calls[t].kid.state \in {"none", "reaped"}
            /\ [result |-> calls[t].loc.result, err |-> calls[t].loc.err]
                 = SoloOutcome(calls[t].args, calls[t].kid,
                               calls[t].loc.start_time,
                               calls[t].loc.end_time)

\* Both calls are over, they overlapped in time, and they ended differently.
C21_Witness ==
    /\ PairOver(1) /\ PairOver(2)
    /\ calls[1].loc.pc = "returned" /\ calls[1].loc.result # None
    /\ calls[2].loc.exc = "TimeoutExpired" /\ calls[2].kid.killed
    /\ calls[1].loc.start_time < calls[2].loc.end_time
    /\ calls[2].loc.start_time < calls[1].loc.end_time

====
